---- MODULE Spec2Model ----
(***************************************************************************)
(* Backtest engine of bob: src/src/simulator.js (run), the strategy        *)
(* src/src/strategies/bob-is-awesome.js (analyze) and the indicators it    *)
(* calls.                                                                  *)
(*                                                                         *)
(* Number representation.  The JavaScript code computes in doubles; the    *)
(* model computes in integers:                                             *)
(*   - a price is a whole number of ticks;                                 *)
(*   - a stored stop-loss / take-profit price is kept in 1/PriceScale of a *)
(*     tick, so close*(1 -+ x/100) is exact;                               *)
(*   - money (balance, margin, fees, profit) is a whole number of cents,   *)
(*     a division into money rounds down;                                  *)
(*   - an asset quantity (position size) is an exact fraction [n, d];      *)
(*   - an indicator value is fixed point, IndScale units per 1;            *)
(*   - NaN, +Infinity, -Infinity and null are the sentinels below.         *)
(***************************************************************************)
EXTENDS Integers, Sequences, FiniteSets, TLC

\* ------------------------------------------------------------------------
\* Numbers
\* ------------------------------------------------------------------------
NaN == 2147483647
PosInf == 2147483646
NegInf == -2147483646
Null == -2147483647

\* A call that throws (a TypeError: reading a property of undefined).
Thrown == 2147483645

IndScale == 1000
PriceScale == 10000

IsNum(x) == x # NaN /\ x # PosInf /\ x # NegInf /\ x # Null

\* JavaScript comparisons: any comparison with NaN is false.
Lt(a, b) == a # NaN /\ b # NaN /\ a < b
Gt(a, b) == a # NaN /\ b # NaN /\ a > b
Le(a, b) == a # NaN /\ b # NaN /\ a <= b
Ge(a, b) == a # NaN /\ b # NaN /\ a >= b

Abs(x) == IF x < 0 THEN -x ELSE x
Max2(a, b) == IF a >= b THEN a ELSE b
Min2(a, b) == IF a <= b THEN a ELSE b

RECURSIVE GCD(_, _)
GCD(a, b) == IF b = 0 THEN a ELSE GCD(b, a % b)

\* a / b * k in JavaScript: 0/0 is NaN, x/0 is +-Infinity, NaN propagates.
\* k / b is reduced first, which leaves the quotient as it is.
Div(a, k, b) ==
  IF ~IsNum(a) \/ ~IsNum(b) THEN NaN
  ELSE IF b = 0 THEN (IF a = 0 THEN NaN ELSE IF a > 0 THEN PosInf ELSE NegInf)
  ELSE LET g == GCD(Abs(k), Abs(b)) IN (a * (k \div g)) \div (b \div g)

Add(a, b) == IF ~IsNum(a) \/ ~IsNum(b) THEN NaN ELSE a + b

\* An asset quantity n/d in lowest terms.
Qty(n, d) == LET g == GCD(Abs(n), Abs(d)) IN
             IF g = 0 THEN [n |-> n, d |-> d] ELSE [n |-> n \div g, d |-> d \div g]

\* The quantity q times the whole number k, in lowest terms.
QtyTimes(q, k) ==
  LET g == GCD(Abs(k), Abs(q.d))
  IN IF g = 0 THEN [n |-> 0, d |-> 1] ELSE Qty(q.n * (k \div g), q.d \div g)

\* ------------------------------------------------------------------------
\* Indicators.  candles is a sequence; candles[k] is the code's
\* candles[k-1].
\* ------------------------------------------------------------------------
RECURSIVE SumSeq(_, _, _)
SumSeq(xs, from, to) ==
  IF from > to THEN 0 ELSE xs[from] + SumSeq(xs, from + 1, to)

RECURSIVE EMALoop(_, _, _, _)
EMALoop(closes, i, period, ema) ==
  IF i > Len(closes) THEN ema
  ELSE EMALoop(closes, i + 1, period,
               ((closes[i] - ema) * 2) \div (period + 1) + ema)

\* The body of calculateEMA over the closes, given in fixed point: the
\* last close when there are fewer than period of them, else the SMA of
\* the last period closes run through the EMA recurrence over the last
\* period-1 closes.
EMAOfCloses(closes, period) ==
  LET n == Len(closes) IN
  IF n < period THEN closes[n]
  ELSE EMALoop(closes, n - period + 2, period,
               SumSeq(closes, n - period + 1, n) \div period)

\* emaIndicator.js.  With no candles at all, candles[candles.length - 1]
\* is undefined and reading its close throws.
calculateEMA(candles, period) ==
  IF Len(candles) = 0 THEN Thrown
  ELSE EMAOfCloses([j \in 1..Len(candles) |-> candles[j].close * IndScale], period)

RECURSIVE SumCloses(_, _, _)
SumCloses(candles, from, to) ==
  IF from > to THEN 0 ELSE candles[from].close + SumCloses(candles, from + 1, to)

\* smaIndicator.js
calculateSMA(candles, period) ==
  LET n == Len(candles) IN
  IF n < period THEN (IF n = 0 THEN Thrown ELSE candles[n].close * IndScale)
  ELSE (SumCloses(candles, n - period + 1, n) * IndScale) \div period

\* Math.sqrt on whole numbers, rounded down.
RECURSIVE SqrtBetween(_, _, _)
SqrtBetween(x, lo, hi) ==
  IF lo >= hi THEN lo
  ELSE LET mid == (lo + hi + 1) \div 2
       IN IF mid * mid <= x THEN SqrtBetween(x, mid, hi) ELSE SqrtBetween(x, lo, mid - 1)

Sqrt(x) == SqrtBetween(x, 0, 46340)

\* Sum over the window of (period * close - sum)^2, i.e. period^2 times
\* the sum of squared differences from the mean.
RECURSIVE SumSquaredDiff(_, _, _, _, _)
SumSquaredDiff(candles, from, to, period, sum) ==
  IF from > to THEN 0
  ELSE (period * candles[from].close - sum) * (period * candles[from].close - sum)
       + SumSquaredDiff(candles, from + 1, to, period, sum)

\* bollingerBandsIndicator.js (unnamed/part_003); the standard deviation
\* is kept to a tenth of a tick.
calculateBollingerBands(candles, period, multiplier) ==
  LET n == Len(candles) IN
  IF n < period
  THEN (IF n = 0 THEN [upper |-> Thrown, middle |-> Thrown, lower |-> Thrown]
        ELSE [upper |-> candles[n].close * IndScale,
              middle |-> candles[n].close * IndScale,
              lower |-> candles[n].close * IndScale])
  ELSE LET sum == SumCloses(candles, n - period + 1, n)
           sma == (sum * IndScale) \div period
           sq == SumSquaredDiff(candles, n - period + 1, n, period, sum)
           stdDev == (IndScale * Sqrt((sq * 100) \div period)) \div (period * 10)
       IN [upper |-> sma + multiplier * stdDev, middle |-> sma,
           lower |-> sma - multiplier * stdDev]

RECURSIVE RSIInit(_, _, _, _, _)
RSIInit(candles, i, period, gains, losses) ==
  IF i > period + 1 THEN [gains |-> gains, losses |-> losses]
  ELSE LET change == candles[i].close - candles[i - 1].close IN
       IF change >= 0 THEN RSIInit(candles, i + 1, period, gains + change, losses)
       ELSE RSIInit(candles, i + 1, period, gains, losses - change)

RECURSIVE RSISmooth(_, _, _, _, _)
RSISmooth(candles, i, period, avgGain, avgLoss) ==
  IF i > Len(candles) THEN [avgGain |-> avgGain, avgLoss |-> avgLoss]
  ELSE LET change == candles[i].close - candles[i - 1].close
           currentGain == IF change >= 0 THEN change ELSE 0
           currentLoss == IF change >= 0 THEN 0 ELSE -change
       IN RSISmooth(candles, i + 1, period,
                    (avgGain * (period - 1) + currentGain * IndScale) \div period,
                    (avgLoss * (period - 1) + currentLoss * IndScale) \div period)

\* calculateRSI without the zero-loss guard of line 44.
calculateRSINoZeroGuard(candles, period) ==
  IF Len(candles) < period + 1 THEN 50 * IndScale
  ELSE LET init == RSIInit(candles, 2, period, 0, 0)
           avg == RSISmooth(candles, period + 2, period,
                            (init.gains * IndScale) \div period,
                            (init.losses * IndScale) \div period)
           rs == Div(avg.avgGain, IndScale, avg.avgLoss)
       IN IF ~IsNum(rs) THEN NaN
          ELSE 100 * IndScale - (100 * IndScale * IndScale) \div (IndScale + rs)

\* rsiIndicator.js
calculateRSI(candles, period) ==
  IF Len(candles) < period + 1 THEN 50 * IndScale
  ELSE LET init == RSIInit(candles, 2, period, 0, 0)
           avg == RSISmooth(candles, period + 2, period,
                            (init.gains * IndScale) \div period,
                            (init.losses * IndScale) \div period)
       IN IF avg.avgLoss = 0 THEN 100 * IndScale
          ELSE LET rs == (avg.avgGain * IndScale) \div avg.avgLoss
               IN 100 * IndScale - (100 * IndScale * IndScale) \div (IndScale + rs)

\* True range of candles[i] against candles[i-1] (i >= 2).
TrueRange(candles, i) ==
  LET tr1 == candles[i].high - candles[i].low
      tr2 == Abs(candles[i].high - candles[i - 1].close)
      tr3 == Abs(candles[i].low - candles[i - 1].close)
  IN Max2(tr1, Max2(tr2, tr3))

RECURSIVE SumTR(_, _, _)
SumTR(candles, from, to) ==
  IF from > to THEN 0 ELSE TrueRange(candles, from) + SumTR(candles, from + 1, to)

RECURSIVE ATRSmooth(_, _, _, _)
ATRSmooth(candles, i, period, atr) ==
  IF i > Len(candles) THEN atr
  ELSE ATRSmooth(candles, i + 1, period,
                 (atr * (period - 1) + TrueRange(candles, i) * IndScale) \div period)

\* atrIndicator.js is not among the sources; this is the ATR of the
\* specification: 0 below period+1 candles, else the mean of the first
\* period true ranges, Wilder-smoothed over the rest.
calculateATR(candles, period) ==
  IF Len(candles) < period + 1 THEN 0
  ELSE ATRSmooth(candles, period + 2, period,
                 (SumTR(candles, 2, period + 1) * IndScale) \div period)

PlusDM(candles, i) ==
  LET upMove == candles[i].high - candles[i - 1].high
      downMove == candles[i - 1].low - candles[i].low
  IN IF upMove > downMove /\ upMove > 0 THEN upMove ELSE 0

MinusDM(candles, i) ==
  LET upMove == candles[i].high - candles[i - 1].high
      downMove == candles[i - 1].low - candles[i].low
  IN IF downMove > upMove /\ downMove > 0 THEN downMove ELSE 0

RECURSIVE SumPlusDM(_, _, _)
SumPlusDM(candles, from, to) ==
  IF from > to THEN 0 ELSE PlusDM(candles, from) + SumPlusDM(candles, from + 1, to)

RECURSIVE SumMinusDM(_, _, _)
SumMinusDM(candles, from, to) ==
  IF from > to THEN 0 ELSE MinusDM(candles, from) + SumMinusDM(candles, from + 1, to)

\* The smoothed sums of calculateADX are kept in 1/ADXScale of a tick.
ADXScale == 10

\* Steps 3 and 4 of calculateADX: +DI and -DI (in hundredths), then DX.
DXOf(smoothedTR, smoothedPlusDM, smoothedMinusDM) ==
  LET plusDI == Div(smoothedPlusDM, 100 * 100, smoothedTR)
      minusDI == Div(smoothedMinusDM, 100 * 100, smoothedTR)
  IN IF ~IsNum(plusDI) \/ ~IsNum(minusDI) THEN NaN
     ELSE Div(Abs(plusDI - minusDI), 100 * IndScale, plusDI + minusDI)

RECURSIVE ADXSmooth(_, _, _, _, _, _, _)
ADXSmooth(candles, i, period, smoothedTR, smoothedPlusDM, smoothedMinusDM, DX) ==
  IF i > Len(candles) THEN DX
  ELSE LET tr == smoothedTR - (smoothedTR \div period) + TrueRange(candles, i) * ADXScale
           pdm == smoothedPlusDM - (smoothedPlusDM \div period) + PlusDM(candles, i) * ADXScale
           mdm == smoothedMinusDM - (smoothedMinusDM \div period) + MinusDM(candles, i) * ADXScale
       IN ADXSmooth(candles, i + 1, period, tr, pdm, mdm, DXOf(tr, pdm, mdm))

\* DX.toFixed(2): two decimals, i.e. a multiple of IndScale/100.
ToFixed2(x) == IF ~IsNum(x) THEN x ELSE ((x + 5) \div 10) * 10

\* adxIndicator.js (unnamed/part_005): null below period+2 candles.
calculateADX(candles, period) ==
  IF Len(candles) < period + 2 THEN Null
  ELSE LET tr0 == SumTR(candles, 2, period + 1) * ADXScale
           pdm0 == SumPlusDM(candles, 2, period + 1) * ADXScale
           mdm0 == SumMinusDM(candles, 2, period + 1) * ADXScale
       IN ToFixed2(ADXSmooth(candles, period + 2, period, tr0, pdm0, mdm0,
                             DXOf(tr0, pdm0, mdm0)))

\* macdIndicator.js (unnamed/part_005): the signal line is the EMA of
\* min(signalPeriod, length) copies of fastEMA - slowEMA.  With no candles
\* the first calculateEMA throws, and so does calculateMACD.
calculateMACD(candles, fastPeriod, slowPeriod, signalPeriod) ==
  LET fastEMA == calculateEMA(candles, fastPeriod)
      slowEMA == calculateEMA(candles, slowPeriod)
      macdLine == fastEMA - slowEMA
      k == Min2(signalPeriod, Len(candles))
      macdCandles == [j \in 1..k |-> fastEMA - slowEMA]
      signalLine == EMAOfCloses(macdCandles, signalPeriod)
  IN IF fastEMA = Thrown \/ slowEMA = Thrown
     THEN [macdLine |-> Thrown, signalLine |-> Thrown, histogram |-> Thrown]
     ELSE [macdLine |-> macdLine, signalLine |-> signalLine,
           histogram |-> macdLine - signalLine]

\* Raw %K of candles[i] over the period candles ending there.
RECURSIVE HighestHigh(_, _, _)
HighestHigh(candles, from, to) ==
  IF from = to THEN candles[from].high
  ELSE Max2(candles[from].high, HighestHigh(candles, from + 1, to))

RECURSIVE LowestLow(_, _, _)
LowestLow(candles, from, to) ==
  IF from = to THEN candles[from].low
  ELSE Min2(candles[from].low, LowestLow(candles, from + 1, to))

RawK(candles, i, period) ==
  LET highestHigh == HighestHigh(candles, i - period + 1, i)
      lowestLow == LowestLow(candles, i - period + 1, i)
  IN Div(candles[i].close - lowestLow, 100 * IndScale, highestHigh - lowestLow)

\* One smoothing pass: the 3-value averages of xs.
Smooth3(xs) ==
  [j \in 1..Max2(Len(xs) - 2, 0) |-> Div(Add(Add(xs[j + 2], xs[j + 1]), xs[j]), 1, 3)]

RECURSIVE SmoothK(_, _)
SmoothK(xs, s) == IF s = 0 THEN xs ELSE SmoothK(Smooth3(xs), s - 1)

RECURSIVE SumNum(_, _, _)
SumNum(xs, from, to) ==
  IF from > to THEN 0 ELSE Add(xs[from], SumNum(xs, from + 1, to))

\* stochasticIndicator.js (unnamed/part_004).  Reading the last element of
\* an empty array gives undefined, which compares like NaN.
calculateStochastic(candles, period, smoothK, smoothD) ==
  IF Len(candles) < period THEN [k |-> 50 * IndScale, d |-> 50 * IndScale]
  ELSE LET rawKValues == [j \in 1..(Len(candles) - period + 1) |->
                            RawK(candles, j + period - 1, period)]
           smoothedKValues == SmoothK(rawKValues, smoothK)
           m == Len(smoothedKValues)
           last == IF m = 0 THEN NaN ELSE smoothedKValues[m]
           dValue == IF m >= smoothD
                     THEN Div(SumNum(smoothedKValues, m - smoothD + 1, m), 1, smoothD)
                     ELSE last
       IN [k |-> last, d |-> dValue]

\* ------------------------------------------------------------------------
\* Candle patterns: patterns/candlePatterns.js.  Factors such as 0.6 are
\* cleared by multiplying both sides.
\* ------------------------------------------------------------------------
BodySize(candle) == Abs(candle.close - candle.open)
CandleRange(candle) == candle.high - candle.low
UpperShadow(candle) == candle.high - Max2(candle.open, candle.close)
LowerShadow(candle) == Min2(candle.open, candle.close) - candle.low

\* bodySize <= candleRange * (0.05 / 100)
isDoji(candle) == BodySize(candle) * 10000 <= CandleRange(candle) * 5

isHammer(candle) ==
  /\ LowerShadow(candle) >= BodySize(candle) * 2
  /\ UpperShadow(candle) * 2 <= BodySize(candle)

isShootingStar(candle) ==
  /\ UpperShadow(candle) >= BodySize(candle) * 2
  /\ LowerShadow(candle) * 2 <= BodySize(candle)

isBullishEngulfing(currentCandle, previousCandle) ==
  /\ previousCandle.close < previousCandle.open
  /\ currentCandle.close > currentCandle.open
  /\ currentCandle.open < previousCandle.close
  /\ currentCandle.close > previousCandle.open

isBearishEngulfing(currentCandle, previousCandle) ==
  /\ previousCandle.close > previousCandle.open
  /\ currentCandle.close < currentCandle.open
  /\ currentCandle.open > previousCandle.close
  /\ currentCandle.close < previousCandle.open

isBullishHarami(currentCandle, previousCandle) ==
  /\ previousCandle.close < previousCandle.open
  /\ currentCandle.close > currentCandle.open
  /\ currentCandle.open > previousCandle.close
  /\ currentCandle.close < previousCandle.open

isBearishHarami(currentCandle, previousCandle) ==
  /\ previousCandle.close > previousCandle.open
  /\ currentCandle.close < currentCandle.open
  /\ currentCandle.open < previousCandle.close
  /\ currentCandle.close > previousCandle.open

\* body > range * 0.6 and body < range * 0.3
LargeBody(candle) == BodySize(candle) * 10 > CandleRange(candle) * 6
SmallBody(candle) == BodySize(candle) * 10 < CandleRange(candle) * 3

isMorningStar(c1, c2, c3) ==
  /\ c1.close < c1.open /\ LargeBody(c1)
  /\ SmallBody(c2)
  /\ Max2(c2.open, c2.close) < c1.close
  /\ c3.close > c3.open /\ LargeBody(c3)
  /\ c3.close * 2 > c1.open + c1.close

isEveningStar(c1, c2, c3) ==
  /\ c1.close > c1.open /\ LargeBody(c1)
  /\ SmallBody(c2)
  /\ Min2(c2.open, c2.close) > c1.close
  /\ c3.close < c3.open /\ LargeBody(c3)
  /\ c3.close * 2 < c1.open + c1.close

\* (high - close) < (close - open) * 0.3
SmallUpperWick(c) == (c.high - c.close) * 10 < (c.close - c.open) * 3
\* (open - low) < (open - close) * 0.3
SmallLowerWick(c) == (c.open - c.low) * 10 < (c.open - c.close) * 3

isThreeWhiteSoldiers(c1, c2, c3) ==
  /\ c1.close > c1.open /\ c2.close > c2.open /\ c3.close > c3.open
  /\ c3.close > c2.close /\ c2.close > c1.close
  /\ c2.open > c1.open /\ c2.open < c1.close
  /\ c3.open > c2.open /\ c3.open < c2.close
  /\ SmallUpperWick(c1) /\ SmallUpperWick(c2) /\ SmallUpperWick(c3)

isThreeBlackCrows(c1, c2, c3) ==
  /\ c1.close < c1.open /\ c2.close < c2.open /\ c3.close < c3.open
  /\ c3.close < c2.close /\ c2.close < c1.close
  /\ c2.open < c1.open /\ c2.open > c1.close
  /\ c3.open < c2.open /\ c3.open > c2.close
  /\ SmallLowerWick(c1) /\ SmallLowerWick(c2) /\ SmallLowerWick(c3)

\* Strength of one candle, in fixed point (IndScale per unit).
calcCandleStrength(candle) ==
  LET range == CandleRange(candle)
      body == BodySize(candle)
      isBullish == candle.close > candle.open
      base == IF isBullish THEN 3 * IndScale ELSE -3 * IndScale
      sized == IF body * 10 > range * 7 THEN base + base
               ELSE IF body * 10 < range * 2 THEN base \div 2
               ELSE base
      wicked == IF isBullish /\ LowerShadow(candle) > body * 2 THEN sized + 2 * IndScale
                ELSE IF ~isBullish /\ UpperShadow(candle) > body * 2
                THEN sized - 2 * IndScale
                ELSE sized
  IN Max2(-10 * IndScale, Min2(10 * IndScale, wicked))

\* What detectPattern returns; direction "none" is a missing field.
Pattern(pattern, strength, direction) ==
  [pattern |-> pattern, strength |-> strength * IndScale, direction |-> direction]

\* Lines 301-365: the first predicate of the chain that holds.
detectPattern(candles) ==
  IF Len(candles) < 3 THEN Pattern("unknown", 0, "none")
  ELSE
  LET c1 == candles[Len(candles) - 2]
      c2 == candles[Len(candles) - 1]
      c3 == candles[Len(candles)]
  IN IF isMorningStar(c1, c2, c3) THEN Pattern("morning_star", 9, "bullish")
     ELSE IF isEveningStar(c1, c2, c3) THEN Pattern("evening_star", -9, "bearish")
     ELSE IF isThreeWhiteSoldiers(c1, c2, c3)
     THEN Pattern("three_white_soldiers", 8, "bullish")
     ELSE IF isThreeBlackCrows(c1, c2, c3) THEN Pattern("three_black_crows", -8, "bearish")
     ELSE IF isBullishEngulfing(c3, c2) THEN Pattern("bullish_engulfing", 7, "bullish")
     ELSE IF isBearishEngulfing(c3, c2) THEN Pattern("bearish_engulfing", -7, "bearish")
     ELSE IF isBullishHarami(c3, c2) THEN Pattern("bullish_harami", 5, "bullish")
     ELSE IF isBearishHarami(c3, c2) THEN Pattern("bearish_harami", -5, "bearish")
     ELSE IF isDoji(c3) THEN Pattern("doji", 0, "neutral")
     ELSE IF isHammer(c3) THEN Pattern("hammer", 6, "bullish")
     ELSE IF isShootingStar(c3) THEN Pattern("shooting_star", -6, "bearish")
     ELSE LET strength == calcCandleStrength(c3)
          IN [pattern |-> "basic_candle", strength |-> strength,
              direction |-> IF strength > 0 THEN "bullish"
                            ELSE IF strength < 0 THEN "bearish" ELSE "neutral"]

\* ------------------------------------------------------------------------
\* Decision engine: strategies/bob-is-awesome.js
\* ------------------------------------------------------------------------
\* Money is counted in cents.
Cents == 100

\* No open position (currentPosition = null).
NoPosition == [direction |-> "none"]

\* Strategy constants, percentages in fixed point (IndScale per 1%).
profitTarget == 100
stopLoss == 150
riskPercentage == 300
leverage == 3

\* A signal without order parameters.
Plain(action, reason) ==
  [action |-> action, reason |-> reason, direction |-> "none",
   positionSize |-> Qty(0, 1), leverage |-> 0, stopLoss |-> 0, takeProfit |-> 0,
   adx |-> Null, volatilityPercent |-> 0]

\* An entry signal.
Entry(action, reason, direction, positionSize, sl, tp, adx, vol) ==
  [action |-> action, reason |-> reason, direction |-> direction,
   positionSize |-> positionSize, leverage |-> leverage, stopLoss |-> sl,
   takeProfit |-> tp, adx |-> adx, volatilityPercent |-> vol]

\* close * (1 + pct/100), pct in fixed point, in 1/PriceScale of a tick.
PriceOffset(close, pct) ==
  close * ((100 * IndScale + pct) \div ((100 * IndScale) \div PriceScale))

\* ManagePosition that never exits.
ManagePositionHoldOnly(currentCandle, currentPosition, bullishCandle, bearishCandle, microUptrend, microDowntrend, histogram) ==
  Plain("hold", "Maintaining position")

\* ManagePosition without the stop-loss test of line 116.
ManagePositionNoStopLoss(currentCandle, currentPosition, bullishCandle, bearishCandle, microUptrend, microDowntrend, histogram) ==
  LET entryPrice == currentPosition.entryPrice
      pnlNum == IF currentPosition.direction = "long"
                THEN (currentCandle.close - entryPrice) * 100 * IndScale
                ELSE (entryPrice - currentCandle.close) * 100 * IndScale
  IN IF pnlNum >= profitTarget * entryPrice THEN Plain("exit", "Take profit hit")
     ELSE IF currentPosition.direction = "long"
             /\ (bearishCandle \/ microDowntrend \/ histogram < 0)
          THEN Plain("exit", "Trend change")
     ELSE IF currentPosition.direction = "long"
             /\ pnlNum * 100 > 5 * IndScale * entryPrice
             /\ currentCandle.close * 9995 > entryPrice * 10000
          THEN Plain("exit", "Trailing stop hit")
     ELSE IF currentPosition.direction = "short"
             /\ (bullishCandle \/ microUptrend \/ histogram > 0)
          THEN Plain("exit", "Trend change")
     ELSE IF currentPosition.direction = "short"
             /\ pnlNum * 100 > 5 * IndScale * entryPrice
             /\ currentCandle.close * 10005 < entryPrice * 10000
          THEN Plain("exit", "Trailing stop hit")
     ELSE Plain("hold", "Maintaining position")

\* Lines 100-178: the open-position branch.  currentPnL is the fraction
\* pnlNum / (entryPrice * IndScale) percent.
ManagePosition(currentCandle, currentPosition, bullishCandle, bearishCandle, microUptrend, microDowntrend, histogram) ==
  LET entryPrice == currentPosition.entryPrice
      pnlNum == IF currentPosition.direction = "long"
                THEN (currentCandle.close - entryPrice) * 100 * IndScale
                ELSE (entryPrice - currentCandle.close) * 100 * IndScale
  IN IF pnlNum >= profitTarget * entryPrice THEN Plain("exit", "Take profit hit")
     ELSE IF pnlNum <= (-stopLoss) * entryPrice THEN Plain("exit", "Stop loss hit")
     ELSE IF currentPosition.direction = "long"
             /\ (bearishCandle \/ microDowntrend \/ histogram < 0)
          THEN Plain("exit", "Trend change")
     ELSE IF currentPosition.direction = "long"
             /\ pnlNum * 100 > 5 * IndScale * entryPrice
             /\ currentCandle.close * 9995 > entryPrice * 10000
          THEN Plain("exit", "Trailing stop hit")
     ELSE IF currentPosition.direction = "short"
             /\ (bullishCandle \/ microUptrend \/ histogram > 0)
          THEN Plain("exit", "Trend change")
     ELSE IF currentPosition.direction = "short"
             /\ pnlNum * 100 > 5 * IndScale * entryPrice
             /\ currentCandle.close * 10005 < entryPrice * 10000
          THEN Plain("exit", "Trailing stop hit")
     ELSE Plain("hold", "Maintaining position")

\* Lines 190-201: fractional-risk size, capped at 20% of the balance.
\* positionValue > maxPositionValue is uncapped * close > accountBalance / 5,
\* and the capped size maxPositionValue / close is accountBalance / (5 * close).
PositionSizeFor(accountBalance, close) ==
  LET uncapped == Qty(accountBalance * riskPercentage, close * stopLoss)
      positionValue == QtyTimes(uncapped, close)
  IN IF positionValue.n * 5 > accountBalance * positionValue.d
     THEN Qty(accountBalance, 5 * close)
     ELSE uncapped

\* The gate of line 181 with the comparison turned round.
LowVolatilityInverted(volatilityPercent) == volatilityPercent > 20

\* Line 181: volatilityPercent < 0.02.
LowVolatility(volatilityPercent) == volatilityPercent < 20

\* WeakTrend with a null ADX read as the number 0.
WeakTrendNullAsZero(adx) == Lt(adx, 15 * IndScale)

\* Lines 186, 221 and 257: adx !== null && adx < 15.
WeakTrend(adx) == adx # Null /\ Lt(adx, 15 * IndScale)

\* Lines 219 and 255: adx !== null && adx > 20.
StrongTrend(adx) == adx # Null /\ Gt(adx, 20 * IndScale)

analyze(candles, currentPosition, balance) ==
  LET accountBalance == IF balance = 0 THEN 1000 * Cents ELSE balance IN
  IF accountBalance <= 0
  THEN Plain("stop", "Account bankrupt - balance is zero or negative")
  ELSE IF Len(candles) < 15 THEN Plain("wait", "Not enough data")
  ELSE
  LET n == Len(candles)
      currentCandle == candles[n]
      previousCandle == candles[n - 1]
      before == SubSeq(candles, 1, n - 1)
      ema5 == calculateEMA(candles, 5)
      prevEma5 == calculateEMA(before, 5)
      rsi == calculateRSI(candles, 14)
      prevRsi == calculateRSI(before, 14)
      atr == calculateATR(candles, 14)
      volatilityPercent == IF currentCandle.close > 0
                           THEN (atr * 100) \div currentCandle.close ELSE 0
      adx == calculateADX(candles, 14)
      macd == calculateMACD(candles, 12, 26, 9)
      stoch == calculateStochastic(candles, 14, 1, 3)
      bullishCandle == currentCandle.close > currentCandle.open
      bearishCandle == currentCandle.close < currentCandle.open
      momentumUp == currentCandle.close > previousCandle.close
      momentumDown == currentCandle.close < previousCandle.close
      microUptrend == ema5 > prevEma5
      microDowntrend == ema5 < prevEma5
      positionSize == PositionSizeFor(accountBalance, currentCandle.close)
      longSignal == (bullishCandle \/ momentumUp)
                    /\ (microUptrend \/ rsi > 40 * IndScale \/ macd.histogram > 0
                        \/ Gt(stoch.k, stoch.d))
      oversoldBounce == (rsi < 40 * IndScale /\ rsi > prevRsi)
                        /\ (bullishCandle \/ momentumUp)
      strongTrendUp == StrongTrend(adx) /\ microUptrend
      shortSignal == (bearishCandle \/ momentumDown)
                     /\ (microDowntrend \/ rsi < 60 * IndScale \/ macd.histogram < 0
                         \/ Lt(stoch.k, stoch.d))
      overboughtDrop == (rsi > 60 * IndScale /\ rsi < prevRsi)
                        /\ (bearishCandle \/ momentumDown)
      strongTrendDown == StrongTrend(adx) /\ microDowntrend
  IN
  IF currentPosition # NoPosition
  THEN ManagePosition(currentCandle, currentPosition, bullishCandle, bearishCandle,
                      microUptrend, microDowntrend, macd.histogram)
  ELSE IF LowVolatility(volatilityPercent) THEN Plain("wait", "Extremely low volatility")
  ELSE IF WeakTrend(adx) /\ volatilityPercent < 50
  THEN Plain("wait", "Weak trend with insufficient volatility")
  ELSE IF (longSignal \/ oversoldBounce \/ strongTrendUp)
          /\ ~(WeakTrend(adx) /\ rsi > 60 * IndScale)
  THEN Entry("buy",
             IF strongTrendUp THEN "Strong uptrend detected"
             ELSE IF oversoldBounce THEN "Oversold bounce" ELSE "Long setup",
             "long", positionSize,
             PriceOffset(currentCandle.close, -stopLoss),
             PriceOffset(currentCandle.close, profitTarget), adx, volatilityPercent)
  ELSE IF (shortSignal \/ overboughtDrop \/ strongTrendDown)
          /\ ~(WeakTrend(adx) /\ rsi < 40 * IndScale)
  THEN Entry("sell",
             IF strongTrendDown THEN "Strong downtrend detected"
             ELSE IF overboughtDrop THEN "Overbought drop" ELSE "Short setup",
             "short", positionSize,
             PriceOffset(currentCandle.close, stopLoss),
             PriceOffset(currentCandle.close, -profitTarget), adx, volatilityPercent)
  ELSE Plain("wait", "Waiting for setup")

\* ------------------------------------------------------------------------
\* Backtest engine: simulator.js
\* ------------------------------------------------------------------------
VARIABLES pc, dbRows, csvRows, config, priceData, i, balance, currentPosition,
          tradeHistory, signal, stats, simulations, trades, result, readings,
          live

vars == <<pc, dbRows, csvRows, config, priceData, i, balance, currentPosition,
          tradeHistory, signal, stats, simulations, trades, result, readings, live>>

\* A loop that starts two candles earlier.
WarmUpShort == 50 - 2

\* for (let i = 50; ...): the first candle the loop looks at.
WarmUp == 50

\* margin * (config.feePercentage / 100); feePercentage in fixed point.
FeeOf(margin, feePercentage) == (margin * feePercentage) \div (100 * IndScale)

\* OpenPosition without the balance check of lines 117 and 152.
OpenPositionUnchecked(sig, currentPrice, time, bal, feePercentage) ==
  LET positionSize == Qty(sig.positionSize.n * sig.leverage, sig.positionSize.d)
      margin == (positionSize.n * currentPrice) \div (positionSize.d * sig.leverage)
      fees == FeeOf(margin, feePercentage)
  IN [ctl |-> "open",
      position |-> [direction |-> sig.direction, entryPrice |-> currentPrice,
                    size |-> positionSize, margin |-> margin,
                    leverage |-> sig.leverage, entryTime |-> time,
                    entryReason |-> sig.reason, stopLoss |-> sig.stopLoss,
                    takeProfit |-> sig.takeProfit, entryBalance |-> bal,
                    volatilityPercent |-> sig.volatilityPercent,
                    adx |-> sig.adx],
      balance |-> bal - (margin + fees)]

\* Lines 110-139 (buy) and 145-174 (sell): the position an entry signal
\* opens, or "skip" when margin + fees exceed the balance.
OpenPosition(sig, currentPrice, time, bal, feePercentage) ==
  LET positionSize == Qty(sig.positionSize.n * sig.leverage, sig.positionSize.d)
      margin == (positionSize.n * currentPrice) \div (positionSize.d * sig.leverage)
      fees == FeeOf(margin, feePercentage)
  IN IF margin + fees > bal
     THEN [ctl |-> "skip", position |-> NoPosition, balance |-> bal]
     ELSE [ctl |-> "open",
           position |-> [direction |-> sig.direction, entryPrice |-> currentPrice,
                         size |-> positionSize, margin |-> margin,
                         leverage |-> sig.leverage, entryTime |-> time,
                         entryReason |-> sig.reason, stopLoss |-> sig.stopLoss,
                         takeProfit |-> sig.takeProfit, entryBalance |-> bal,
                         volatilityPercent |-> sig.volatilityPercent,
                         adx |-> sig.adx],
           balance |-> bal - (margin + fees)]

\* PnlOf without the short branch.
PnlOfLongOnly(position, currentPrice) ==
  ((currentPrice - position.entryPrice) * position.size.n) \div position.size.d

\* Directional price delta times size, in cents.
PnlOf(position, currentPrice) ==
  IF position.direction = "long"
  THEN ((currentPrice - position.entryPrice) * position.size.n) \div position.size.d
  ELSE ((position.entryPrice - currentPrice) * position.size.n) \div position.size.d

\* ClosePosition that does not give the margin back.
ClosePositionKeepsMargin(position, currentPrice, time, reason, bal, feePercentage) ==
  LET pnl == PnlOf(position, currentPrice)
      exitFees == FeeOf(position.margin, feePercentage)
      totalPnl == pnl - exitFees
      profitPercentage == Div(totalPnl, 100 * IndScale, position.margin)
      trade == position @@ [exitPrice |-> currentPrice, exitTime |-> time,
                            exitReason |-> reason, profit |-> totalPnl,
                            profitPercentage |-> profitPercentage, fees |-> exitFees]
  IN [trade |-> trade, balance |-> bal + totalPnl]

\* The close block (lines 179-215, repeated at 223-252, 256-285, 292-321
\* and 325-354): the Trade and the balance after it.
ClosePosition(position, currentPrice, time, reason, bal, feePercentage) ==
  LET pnl == PnlOf(position, currentPrice)
      exitFees == FeeOf(position.margin, feePercentage)
      totalPnl == pnl - exitFees
      profitPercentage == Div(totalPnl, 100 * IndScale, position.margin)
      trade == position @@ [exitPrice |-> currentPrice, exitTime |-> time,
                            exitReason |-> reason, profit |-> totalPnl,
                            profitPercentage |-> profitPercentage, fees |-> exitFees]
  IN [trade |-> trade, balance |-> bal + position.margin + totalPnl]

\* Lines 218-357: which passive exit the close price triggers, if any.
PriceTrigger(position, currentPrice) ==
  IF position.direction = "long"
  THEN IF currentPrice * PriceScale <= position.stopLoss THEN "Stop loss triggered"
       ELSE IF currentPrice * PriceScale >= position.takeProfit THEN "Take profit triggered"
       ELSE "none"
  ELSE IF position.direction = "short"
  THEN IF currentPrice * PriceScale >= position.stopLoss THEN "Stop loss triggered"
       ELSE IF currentPrice * PriceScale <= position.takeProfit THEN "Take profit triggered"
       ELSE "none"
  ELSE "none"

\* Line 83: the loop breaks before the strategy is asked.
CriticallyLow(bal, position) ==
  ~(bal < 2 * Cents /\ position = NoPosition) /\ 2 * bal < Cents

\* HaltStep without the break.
HaltStepNoBreak(same, idx, sig) ==
  [same EXCEPT !.history = Append(same.history,
                  [timestamp |-> idx, action |-> "stop", reason |-> sig.reason,
                   balance |-> same.balance])]

\* Lines 96-105: the halt record, then break.
HaltStep(same, idx, sig) ==
  [same EXCEPT !.ctl = "break",
               !.history = Append(same.history,
                  [timestamp |-> idx, action |-> "stop", reason |-> sig.reason,
                   balance |-> same.balance])]

\* Lines 108-177: an entry signal with no position open.
EnterStep(same, currentPrice, idx, sig, feePercentage) ==
  LET o == OpenPosition(sig, currentPrice, idx, same.balance, feePercentage)
  IN [same EXCEPT !.position = o.position, !.balance = o.balance]

\* CloseStep that opens the same position again on the closing bar.
CloseStepAndReopen(same, currentPrice, idx, reason, feePercentage) ==
  LET c == ClosePosition(same.position, currentPrice, idx, reason, same.balance,
                         feePercentage)
  IN [same EXCEPT !.position = [same.position EXCEPT !.entryTime = idx,
                                                     !.entryPrice = currentPrice],
                  !.balance = c.balance - same.position.margin,
                  !.history = Append(same.history, c.trade)]

\* Closing the open position for the given reason.
CloseStep(same, currentPrice, idx, reason, feePercentage) ==
  LET c == ClosePosition(same.position, currentPrice, idx, reason, same.balance,
                         feePercentage)
  IN [same EXCEPT !.position = NoPosition, !.balance = c.balance,
                  !.history = Append(same.history, c.trade)]

\* The if / else-if chain of lines 96-357 for one signal.
Dispatch(same, currentPrice, idx, sig, feePercentage) ==
  IF sig.action = "stop" THEN HaltStep(same, idx, sig)
  ELSE IF sig.action \in {"buy", "sell"} /\ same.position = NoPosition
  THEN EnterStep(same, currentPrice, idx, sig, feePercentage)
  ELSE IF sig.action = "exit" /\ same.position # NoPosition
  THEN CloseStep(same, currentPrice, idx, sig.reason, feePercentage)
  ELSE IF same.position # NoPosition /\ PriceTrigger(same.position, currentPrice) # "none"
  THEN CloseStep(same, currentPrice, idx, PriceTrigger(same.position, currentPrice),
                 feePercentage)
  ELSE same

\* One iteration of the loop (lines 73-358) on candle idx (the code's
\* index, so the candle is data[idx + 1]) with the strategy's signal.
LoopBody(data, idx, feePercentage, position, bal, history, sig) ==
  LET same == [ctl |-> "next", position |-> position, balance |-> bal,
               history |-> history]
  IN IF CriticallyLow(bal, position) THEN [same EXCEPT !.ctl = "break"]
     ELSE Dispatch(same, data[idx + 1].close, idx, sig, feePercentage)

\* CandlesAt with one candle too many: priceData.slice(0, i + 2).
CandlesAtLookahead(data, idx) == SubSeq(data, 1, Min2(idx + 2, Len(data)))

\* candles = priceData.slice(0, i + 1)
CandlesAt(data, idx) == SubSeq(data, 1, idx + 1)

\* The signal of line 93.
SignalAt(data, idx, position, bal) == analyze(CandlesAt(data, idx), position, bal)

\* ------------------------------------------------------------------------
\* Statistics (lines 360-377) and persistence (database.js)
\* ------------------------------------------------------------------------
\* trade.profit; a ledger entry without the field gives undefined, which
\* compares like NaN.
ProfitOf(entry) == IF "profit" \in DOMAIN entry THEN entry.profit ELSE NaN

RECURSIVE SumProfit(_)
SumProfit(history) ==
  IF history = <<>> THEN 0 ELSE ProfitOf(Head(history)) + SumProfit(Tail(history))

IsWinning(trade) == Gt(ProfitOf(trade), 0)
IsLosing(trade) == Le(ProfitOf(trade), 0)

\* ComputeStats without the Infinity of line 374.
ComputeStatsNoInfinity(history, bal, initialBalance) ==
  LET winning == SelectSeq(history, IsWinning)
      losing == SelectSeq(history, IsLosing)
      winningTrades == Len(winning)
      losingTrades == Len(losing)
      totalProfit == SumProfit(winning)
      totalLoss == Abs(SumProfit(losing))
  IN [initialBalance |-> initialBalance,
      finalBalance |-> bal,
      totalTrades |-> Len(history),
      winningTrades |-> winningTrades,
      losingTrades |-> losingTrades,
      winRate |-> IF Len(history) > 0
                  THEN (winningTrades * 100 * IndScale) \div Len(history) ELSE 0,
      profitFactor |-> IF totalLoss > 0 THEN (totalProfit * IndScale) \div totalLoss
                       ELSE 0,
      pnl |-> bal - initialBalance,
      pnlPercentage |-> Div(bal - initialBalance, 100 * IndScale, initialBalance)]

\* Lines 360-377: the statistics of a run.  pnlPercentage,
\* ((bal / initialBalance) - 1) * 100, is computed as
\* (bal - initialBalance) / initialBalance * 100, the same number.
ComputeStats(history, bal, initialBalance) ==
  LET winning == SelectSeq(history, IsWinning)
      losing == SelectSeq(history, IsLosing)
      winningTrades == Len(winning)
      losingTrades == Len(losing)
      totalProfit == SumProfit(winning)
      totalLoss == Abs(SumProfit(losing))
  IN [initialBalance |-> initialBalance,
      finalBalance |-> bal,
      totalTrades |-> Len(history),
      winningTrades |-> winningTrades,
      losingTrades |-> losingTrades,
      winRate |-> IF Len(history) > 0
                  THEN (winningTrades * 100 * IndScale) \div Len(history) ELSE 0,
      profitFactor |-> IF totalLoss > 0 THEN (totalProfit * IndScale) \div totalLoss
                       ELSE IF totalProfit > 0 THEN PosInf ELSE 0,
      pnl |-> bal - initialBalance,
      pnlPercentage |-> Div(bal - initialBalance, 100 * IndScale, initialBalance)]

\* saveTrades (database.js 448-505): the rows of one transaction.
RECURSIVE TradeRows(_, _)
TradeRows(history, runningBalance) ==
  IF history = <<>> THEN <<>>
  ELSE LET trade == Head(history)
           newBalance == Add(runningBalance, ProfitOf(trade))
       IN <<[profit |-> ProfitOf(trade), prev_balance |-> runningBalance,
             new_balance |-> newBalance]>>
          \o TradeRows(Tail(history), newBalance)

\* new Date(undefined).toISOString() throws: an entry without entryTime or
\* exitTime makes saveTrades roll the transaction back.
SaveTradesThrows(history) ==
  \E k \in 1..Len(history) :
     ~("entryTime" \in DOMAIN history[k]) \/ ~("exitTime" \in DOMAIN history[k])

SavedRows(history, initialBalance) ==
  IF SaveTradesThrows(history) THEN <<>> ELSE TradeRows(history, initialBalance)

\* ------------------------------------------------------------------------
\* Inputs
\* ------------------------------------------------------------------------
\* Number of candles after the warm-up candles.
MaxTail == 3

Base == 3001
Wick == 1

\* Close of warm-up candle j: a zigzag around Base.
WarmUpClose(j) ==
  Base + (CASE j % 4 = 0 -> 0 [] j % 4 = 1 -> 2 [] j % 4 = 2 -> 0 [] OTHER -> -2)

\* Closes a candle after the warm-up can have.
CloseChoices == {2995, 3000, 3003, 3005, 8000}

\* The candle that opens at the previous close and closes at close.
MkCandle(prevClose, close) ==
  [open |-> prevClose, close |-> close,
   high |-> Max2(prevClose, close) + Wick, low |-> Min2(prevClose, close) - Wick]

BarsOf(closes) ==
  [j \in 1..Len(closes) |-> MkCandle(IF j = 1 THEN closes[1] ELSE closes[j - 1], closes[j])]

WarmUpCloses == [j \in 1..WarmUp |-> WarmUpClose(j)]

AllBars == {BarsOf(WarmUpCloses \o tail) : tail \in [1..MaxTail -> CloseChoices]}

\* Runs one candle longer, over two closes.
LongCloseChoices == {2995, 3000}

LongBars ==
  {BarsOf(WarmUpCloses \o tail) : tail \in [1..(MaxTail + 1) -> LongCloseChoices]}

\* config.initialBalance (cents) and config.feePercentage (fixed point).
Configs == {[initialBalance |-> 100 * Cents, feePercentage |-> 75],
            [initialBalance |-> 100 * Cents, feePercentage |-> 0],
            [initialBalance |-> 60, feePercentage |-> 75]}

\* What the price table holds for the ticker and date range, and what it
\* holds after the CSV import (count: what importCSVToDatabase returns).
Sources ==
  {[db |-> bars, count |-> 0, csv |-> <<>>] : bars \in AllBars \cup LongBars}
  \cup {[db |-> <<>>, count |-> WarmUp, csv |-> BarsOf(WarmUpCloses)],
        [db |-> <<>>, count |-> WarmUp, csv |-> <<>>],
        [db |-> <<>>, count |-> 0, csv |-> <<>>],
        [db |-> BarsOf(WarmUpCloses), count |-> 0, csv |-> <<>>]}

\* The configuration when the environment sets nothing: initialBalance
\* 10000 and feePercentage 0.075.
DefaultConfig == [initialBalance |-> 10000 * Cents, feePercentage |-> 75]

\* Closes 100, 101, 102, ...: n candles.
RisingBars(n) == BarsOf([j \in 1..n |-> 100 + j - 1])

\* Rising runs: shorter than the loop's first index, and long enough for
\* it to take MaxTail steps.
RisingSources == {RisingBars(30), RisingBars(WarmUp + MaxTail)}

\* The live trader's state when the live trader is not running.
NotLive == [isRunning |-> FALSE]

\* No signal yet: analyze has not been called in this iteration.
NotAsked == Plain("none", "not asked")

Init ==
  /\ pc = "fetch"
  /\ \/ /\ \E src \in Sources :
              dbRows = src.db /\ csvRows = [count |-> src.count, rows |-> src.csv]
        /\ config \in Configs
     \/ /\ dbRows \in RisingSources
        /\ csvRows = [count |-> 0, rows |-> <<>>]
        /\ config = DefaultConfig
  /\ priceData = <<>>
  /\ i = WarmUp
  /\ balance = config.initialBalance
  /\ currentPosition = NoPosition
  /\ tradeHistory = <<>>
  /\ signal = NotAsked
  /\ stats = <<>>
  /\ simulations = <<>>
  /\ trades = <<>>
  /\ result = <<>>
  /\ readings = <<>>
  /\ live = NotLive

\* AfterFetch without the throw.
AfterFetchNoThrow(rows) == "loop"

\* Lines 55-60: still no data after the import attempt throws.
AfterFetch(rows) == IF rows = <<>> THEN "failed" ELSE "loop"

\* Lines 22-61: fetch, import attempt, second fetch, or the error.
FetchData ==
  /\ pc = "fetch"
  /\ LET afterImport == IF dbRows # <<>> THEN dbRows
                        ELSE IF csvRows.count > 0 THEN csvRows.rows ELSE <<>>
     IN /\ priceData' = afterImport
        /\ pc' = AfterFetch(afterImport)
  /\ UNCHANGED <<dbRows, csvRows, config, i, balance, currentPosition,
                 tradeHistory, signal, stats, simulations, trades, result, readings, live>>

\* One loop iteration with the signal given.
StepWith(sig) ==
  LET r == LoopBody(priceData, i, config.feePercentage, currentPosition, balance,
                    tradeHistory, sig)
  IN /\ signal' = IF CriticallyLow(balance, currentPosition) THEN NotAsked ELSE sig
     /\ currentPosition' = r.position
     /\ balance' = r.balance
     /\ tradeHistory' = r.history
     /\ pc' = IF r.ctl = "break" THEN "stats" ELSE "loop"
     /\ i' = IF r.ctl = "break" THEN i ELSE i + 1
     /\ UNCHANGED <<dbRows, csvRows, config, priceData, stats, simulations,
                    trades, result, readings, live>>

\* One loop iteration with the repository's strategy.
Step ==
  /\ pc = "loop"
  /\ i < Len(priceData)
  /\ StepWith(SignalAt(priceData, i, currentPosition, balance))

\* Lines 360-413: statistics, saveSimulation, saveTrades, return.
Finish ==
  /\ \/ pc = "stats"
     \/ pc = "loop" /\ i >= Len(priceData)
  /\ LET st == ComputeStats(tradeHistory, balance, config.initialBalance)
     IN /\ stats' = <<st>>
        /\ result' = <<[stats |-> st, trades |-> tradeHistory]>>
        /\ \E saved \in BOOLEAN :
             IF saved
             THEN /\ simulations' = Append(simulations, st)
                  /\ trades' = SavedRows(tradeHistory, st.initialBalance)
             ELSE UNCHANGED <<simulations, trades>>
  /\ pc' = "done"
  /\ UNCHANGED <<dbRows, csvRows, config, priceData, i, balance, currentPosition,
                 tradeHistory, signal, readings, live>>

Next == FetchData \/ Step \/ Finish

Spec == Init /\ [][Next]_vars

\* ------------------------------------------------------------------------
\* The simulator under any strategy: the strategy file is the part users
\* replace, so here a signal is any of the shapes run() handles.
\* ------------------------------------------------------------------------
AnyCloseChoices == {2995, 3000, 3005}

AnySignals(close) ==
  {Plain("hold", "Maintaining position"),
   Plain("exit", "Strategy exit"),
   Plain("stop", "Strategy halt"),
   Entry("buy", "Long", "long", Qty(2, 3),
         PriceOffset(close, -stopLoss), PriceOffset(close, profitTarget), Null, 0),
   Entry("sell", "Short", "short", Qty(2, 3),
         PriceOffset(close, stopLoss), PriceOffset(close, -profitTarget), Null, 0),
   Entry("buy", "Long", "long", Qty(10, 1),
         PriceOffset(close, -stopLoss), PriceOffset(close, profitTarget), Null, 0)}

InitAny ==
  /\ Init
  /\ config.initialBalance = 100 * Cents /\ config.feePercentage = 75
  /\ \A j \in (WarmUp + 1)..Len(dbRows) : dbRows[j].close \in AnyCloseChoices

StepAny ==
  /\ pc = "loop"
  /\ i < Len(priceData)
  /\ \E sig \in AnySignals(priceData[i + 1].close) : StepWith(sig)

NextAny == FetchData \/ StepAny \/ Finish

SpecAny == InitAny /\ [][NextAny]_vars

\* ------------------------------------------------------------------------
\* The indicators and the decision engine on their own: each prefix of a
\* candle sequence, the empty one first, is handed to every indicator
\* (with its default period) and to analyze.
\* ------------------------------------------------------------------------
\* Number of candles of an evaluated sequence.
MaxEval == 22

FlatBars(price, n) ==
  [j \in 1..n |-> [open |-> price, close |-> price, high |-> price, low |-> price]]

IsFlat(candles) ==
  \A j \in 1..Len(candles) :
     /\ candles[j].close = candles[1].close
     /\ candles[j].open = candles[j].close
     /\ candles[j].high = candles[j].close
     /\ candles[j].low = candles[j].close

\* A wave of one tick around its level: 1, 0, -1, 0, ...
Triangle(j) == CASE j % 4 = 0 -> 0 [] j % 4 = 1 -> 1 [] j % 4 = 2 -> 0 [] OTHER -> -1

\* Flat, rising, falling and oscillating sequences; the two at 12000 are
\* quiet: their true range is a few hundred-thousandths of the price.
EvalBars ==
  {FlatBars(price, MaxEval) : price \in {0, 1, 100, 3000}}
  \cup {BarsOf([j \in 1..MaxEval |-> 100 + j - 1]),
        BarsOf([j \in 1..MaxEval |-> 3000 - j]),
        BarsOf([j \in 1..MaxEval |-> WarmUpClose(j)]),
        BarsOf([j \in 1..MaxEval |-> 100 + (j % 3) * (j % 5)]),
        BarsOf([j \in 1..MaxEval |-> 12000 + j]),
        BarsOf([j \in 1..MaxEval |-> 12000 + Triangle(j)])}

\* (fastPeriod, slowPeriod, signalPeriod): the defaults and other choices,
\* with the signal period below, at and above the number of candles.
MacdPeriods == {<<12, 26, 9>>, <<3, 5, 2>>, <<5, 8, 30>>, <<1, 1, 1>>, <<26, 12, 14>>}

Readings(candles) ==
  [macd |-> [p \in MacdPeriods |-> calculateMACD(candles, p[1], p[2], p[3])],
   rsi |-> calculateRSI(candles, 14),
   atr |-> calculateATR(candles, 14),
   adx |-> calculateADX(candles, 14),
   stoch |-> calculateStochastic(candles, 14, 1, 3),
   sma |-> calculateSMA(candles, 20),
   ema |-> calculateEMA(candles, 20),
   bands |-> calculateBollingerBands(candles, 20, 2)]

InitEval ==
  /\ pc = "eval"
  /\ dbRows = <<>> /\ csvRows = [count |-> 0, rows |-> <<>>]
  /\ config \in Configs
  /\ config.feePercentage = 75
  /\ priceData \in EvalBars
  /\ i = 0
  /\ balance = config.initialBalance
  /\ currentPosition = NoPosition
  /\ tradeHistory = <<>>
  /\ signal = NotAsked
  /\ stats = <<>>
  /\ simulations = <<>>
  /\ trades = <<>>
  /\ result = <<>>
  /\ readings = <<>>
  /\ live = NotLive

\* The first i candles go to the indicators and to analyze.
Evaluate ==
  /\ pc = "eval"
  /\ i <= Len(priceData)
  /\ readings' = <<Readings(SubSeq(priceData, 1, i))>>
  /\ signal' = analyze(SubSeq(priceData, 1, i), currentPosition, balance)
  /\ i' = i + 1
  /\ UNCHANGED <<pc, dbRows, csvRows, config, priceData, balance, currentPosition,
                 tradeHistory, stats, simulations, trades, result, live>>

NextEval == Evaluate

SpecEval == InitEval /\ [][NextEval]_vars

\* ------------------------------------------------------------------------
\* Pattern detection on its own: detectPattern applied to windows of
\* candles of the shapes below.
\* ------------------------------------------------------------------------
\* Longest window handed to detectPattern.
MaxWindow == 3

Candle(open, close, high, low) ==
  [open |-> open, close |-> close, high |-> high, low |-> low]

\* Full-bodied rising and falling candles, two small candles with one long
\* wick, and two candles with no body and one wick.
PatternCandles ==
  {Candle(10, 16, 16, 10), Candle(12, 18, 18, 12), Candle(14, 20, 20, 14),
   Candle(20, 14, 20, 14), Candle(18, 12, 18, 12), Candle(16, 10, 16, 10),
   Candle(12, 14, 14, 8), Candle(14, 12, 18, 12),
   Candle(8, 8, 8, 4), Candle(18, 18, 22, 18)}

InitPattern ==
  /\ pc = "pattern"
  /\ dbRows = <<>> /\ csvRows = [count |-> 0, rows |-> <<>>]
  /\ config = DefaultConfig
  /\ \E n \in 2..MaxWindow : priceData \in [1..n -> PatternCandles]
  /\ i = 0
  /\ balance = config.initialBalance
  /\ currentPosition = NoPosition
  /\ tradeHistory = <<>>
  /\ signal = NotAsked
  /\ stats = <<>>
  /\ simulations = <<>>
  /\ trades = <<>>
  /\ result = <<>>
  /\ readings = <<>>
  /\ live = NotLive

Detect ==
  /\ pc = "pattern"
  /\ readings' = <<detectPattern(priceData)>>
  /\ pc' = "detected"
  /\ UNCHANGED <<dbRows, csvRows, config, priceData, i, balance, currentPosition,
                 tradeHistory, signal, stats, simulations, trades, result, live>>

NextPattern == Detect

SpecPattern == InitPattern /\ [][NextPattern]_vars

\* ------------------------------------------------------------------------
\* The live trader (unnamed/part_006).  A trading cycle is an async call:
\* it runs until its next await, and other cycles run while it waits.
\* live.at[c] is the await cycle c is suspended at, live.side[c] the
\* direction of the entry it is making, and live.entriesSinceExit the
\* number of entry orders sent, and not rejected, since the last closing
\* order.
\* ------------------------------------------------------------------------
\* Number of trading cycles: the initial one and the timer's.
MaxCycles == 3

Cycles == 1..MaxCycles

\* What analyze can answer, given the tracked position.
LiveSignals(position) ==
  IF position = "none" THEN {"wait", "buy", "sell"} ELSE {"hold", "exit"}

\* start(): isRunning is set, the position found on the exchange, if any,
\* is tracked, and the initial cycle is about to run.
InitLive ==
  /\ pc = "live"
  /\ dbRows = <<>> /\ csvRows = [count |-> 0, rows |-> <<>>]
  /\ config = DefaultConfig
  /\ priceData = <<>>
  /\ i = 0
  /\ balance = config.initialBalance
  /\ currentPosition = NoPosition
  /\ tradeHistory = <<>>
  /\ signal = NotAsked
  /\ stats = <<>>
  /\ simulations = <<>>
  /\ trades = <<>>
  /\ result = <<>>
  /\ readings = <<>>
  /\ \E existing \in {"none", "long", "short"} :
        live = [isRunning |-> TRUE,
                position |-> existing,
                at |-> [c \in Cycles |-> "idle"],
                side |-> [c \in Cycles |-> "none"],
                entriesSinceExit |-> 0]

LiveUnchanged ==
  UNCHANGED <<pc, dbRows, csvRows, config, priceData, i, balance, currentPosition,
              tradeHistory, signal, stats, simulations, trades, result, readings>>

\* Line 53: the initial cycle, which start() awaits.
RunInitialCycle ==
  /\ pc = "live"
  /\ live.at[1] = "idle"
  /\ live' = [live EXCEPT !.at[1] = "getCandles"]
  /\ LiveUnchanged

\* Lines 59-63: the interval fires and starts the next cycle, whether or
\* not earlier cycles have finished.  The interval is set after the
\* initial cycle has returned.
TimerFires(c) ==
  /\ pc = "live"
  /\ c > 1
  /\ live.at[1] = "done"
  /\ live.at[c] = "idle"
  /\ live.at[c - 1] # "idle"
  /\ live' = [live EXCEPT !.at[c] = "getCandles"]
  /\ LiveUnchanged

\* Lines 79-86: the candles arrive; with none the cycle returns.
GotCandles(c) ==
  /\ pc = "live"
  /\ live.at[c] = "getCandles"
  /\ \E empty \in BOOLEAN :
        live' = [live EXCEPT !.at[c] = IF empty THEN "done" ELSE "getCurrentPrice"]
  /\ LiveUnchanged

\* Lines 86-93: the price arrives.
GotPrice(c) ==
  /\ pc = "live"
  /\ live.at[c] = "getCurrentPrice"
  /\ live' = [live EXCEPT !.at[c] = "getAccountInfo"]
  /\ LiveUnchanged

\* executeExit up to its await (lines 321-350): the closing order is sent.
SendExit(c) ==
  [live EXCEPT !.at[c] = "exitOrder", !.entriesSinceExit = 0]

\* Lines 93-121: the account arrives, analyze is asked with the tracked
\* position, and the signal is dispatched.  executeBuy and executeSell run
\* up to their first await (lines 155, 240).
GotAccountInfo(c) ==
  /\ pc = "live"
  /\ live.at[c] = "getAccountInfo"
  /\ \E action \in LiveSignals(live.position) :
        live' = IF action \in {"buy", "sell"} /\ live.position = "none"
                THEN [live EXCEPT !.at[c] = "getFuturesAccountInfo",
                                  !.side[c] = IF action = "buy" THEN "long" ELSE "short"]
                ELSE IF action = "exit" /\ live.position # "none"
                THEN SendExit(c)
                ELSE [live EXCEPT !.at[c] = "done"]
  /\ LiveUnchanged

\* Lines 155-193 (buy) and 240-283 (sell): the balance arrives; a size that
\* rounds to zero or an insufficient balance ends the cycle.
GotBalance(c) ==
  /\ pc = "live"
  /\ live.at[c] = "getFuturesAccountInfo"
  /\ \E affordable \in BOOLEAN :
        live' = [live EXCEPT !.at[c] = IF affordable THEN "setLeverage" ELSE "done"]
  /\ LiveUnchanged

\* Lines 198-203 (buy) and 288-293 (sell): placeMarketOrder is called.
PlaceEntry(c) ==
  [live EXCEPT !.at[c] = "entryOrder",
               !.entriesSinceExit = live.entriesSinceExit + 1]

\* Lines 193-198 and 283-288: the leverage is set, the entry order is sent.
LeverageSet(c) ==
  /\ pc = "live"
  /\ live.at[c] = "setLeverage"
  /\ live' = PlaceEntry(c)
  /\ LiveUnchanged

\* Lines 205-217 and 295-307: the entry order is filled; the position is
\* tracked from now on.
EntryFilled(c) ==
  /\ pc = "live"
  /\ live.at[c] = "entryOrder"
  /\ live' = [live EXCEPT !.at[c] = "done", !.position = live.side[c]]
  /\ LiveUnchanged

\* Lines 352-359: the closing order is filled; nothing is tracked.
ExitFilled(c) ==
  /\ pc = "live"
  /\ live.at[c] = "exitOrder"
  /\ live' = [live EXCEPT !.at[c] = "done", !.position = "none"]
  /\ LiveUnchanged

\* The awaited call rejects: the catch blocks of lines 123, 220, 310 and
\* 360 log the error and the cycle ends.  An entry order that is rejected
\* no longer counts as sent.
Rejected(c) ==
  /\ pc = "live"
  /\ live.at[c] \notin {"idle", "done"}
  /\ live' = [live EXCEPT !.at[c] = "done",
                          !.entriesSinceExit = IF live.at[c] = "entryOrder"
                                               THEN live.entriesSinceExit - 1
                                               ELSE live.entriesSinceExit]
  /\ LiveUnchanged

NextLive ==
  \/ RunInitialCycle
  \/ \E c \in Cycles :
        \/ TimerFires(c)
        \/ GotCandles(c)
        \/ GotPrice(c)
        \/ GotAccountInfo(c)
        \/ GotBalance(c)
        \/ LeverageSet(c)
        \/ EntryFilled(c)
        \/ ExitFilled(c)
        \/ Rejected(c)

SpecLive == InitLive /\ [][NextLive]_vars

\* The candles the last evaluation was given.
Evaluated == SubSeq(priceData, 1, i - 1)

\* ------------------------------------------------------------------------
\* Properties
\* ------------------------------------------------------------------------
\* The last ledger entry.
LastEntry(history) == history[Len(history)]

\* Ledger entries that are Trades (a halt record has no exit).
IsTrade(entry) == "exitReason" \in DOMAIN entry

\* A loop iteration is being taken from the current state.
InLoop == pc = "loop" /\ i < Len(priceData)

RoundTripBalance(t, feePercentage) ==
  LET delta == IF t.direction = "long" THEN t.exitPrice - t.entryPrice
               ELSE t.entryPrice - t.exitPrice
      realizedPnl == (delta * t.size.n) \div t.size.d
      entryFee == (t.margin * feePercentage) \div (100 * IndScale)
      exitFee == (t.margin * feePercentage) \div (100 * IndScale)
  IN t.entryBalance - (t.margin + entryFee) + (t.margin + realizedPnl - exitFee)

\* C2: right after a Trade closes (by strategy exit, passive stop-loss or
\* passive take-profit, long or short) the balance is the balance before
\* the open minus (margin + entry fee) plus (margin + realized P&L - exit
\* fee).
C2_RoundTripBalance ==
  (pc \in {"loop", "stats"} /\ currentPosition = NoPosition /\ tradeHistory # <<>>
     /\ IsTrade(LastEntry(tradeHistory)))
    => balance = RoundTripBalance(LastEntry(tradeHistory), config.feePercentage)

C2_Witness ==
  /\ tradeHistory # <<>>
  /\ IsTrade(LastEntry(tradeHistory))
  /\ LastEntry(tradeHistory).direction = "short"
  /\ LastEntry(tradeHistory).exitReason = "Stop loss triggered"
  /\ currentPosition = NoPosition
  /\ balance < LastEntry(tradeHistory).entryBalance

\* C3: with a position open, a bar whose close is at or beyond the stored
\* stop-loss price closes the position on that bar at that close, with a
\* stop-loss exit reason and a negative profit; a close at or beyond the
\* take-profit price closes it on that bar too.
C3_StopOrTargetClosesOnThatBar ==
  [][(InLoop /\ currentPosition # NoPosition
        /\ PriceTrigger(currentPosition, priceData[i + 1].close) # "none")
       => (/\ currentPosition' = NoPosition
           /\ Len(tradeHistory') = Len(tradeHistory) + 1
           /\ IsTrade(LastEntry(tradeHistory'))
           /\ LastEntry(tradeHistory').exitPrice = priceData[i + 1].close
           /\ LastEntry(tradeHistory').exitTime = i
           /\ (PriceTrigger(currentPosition, priceData[i + 1].close) = "Stop loss triggered"
                 => (/\ LastEntry(tradeHistory').exitReason
                           \in {"Stop loss hit", "Stop loss triggered"}
                     /\ LastEntry(tradeHistory').profit < 0)))]_vars

C5_HaltAtZeroOrBelow ==
  [][(InLoop /\ balance <= 0) => (signal'.action = "stop" /\ pc' = "stats")]_vars

\* A halt record of the ledger.
IsHalt(entry) == "action" \in DOMAIN entry /\ entry.action = "stop"

\* C6: on halt the simulator appends exactly one halt record, leaves
\* balance and position unchanged and ends the loop; the halt record is
\* the last ledger entry and the only halt record.
C6_HaltEndsRun ==
  /\ [][(InLoop /\ signal'.action = "stop")
          => (/\ tradeHistory' = Append(tradeHistory, LastEntry(tradeHistory'))
              /\ IsHalt(LastEntry(tradeHistory'))
              /\ balance' = balance
              /\ currentPosition' = currentPosition
              /\ pc' = "stats")]_vars
  /\ [](\A k \in 1..Len(tradeHistory) :
          IsHalt(tradeHistory[k]) => (k = Len(tradeHistory) /\ pc \in {"stats", "done"}))

C6_Witness ==
  /\ pc = "done"
  /\ tradeHistory # <<>>
  /\ IsHalt(LastEntry(tradeHistory))
  /\ currentPosition # NoPosition
  /\ i < Len(priceData) - 1

\* C7: the statistics count closed Trades only, also after a halt:
\* totalTrades is the number of Trades, winning + losing = totalTrades and
\* winRate = winning / Trades x 100.
C7_StatsCountClosedTrades ==
  pc = "done" =>
    LET closed == Len(SelectSeq(tradeHistory, IsTrade))
    IN /\ stats[1].totalTrades = closed
       /\ stats[1].winningTrades + stats[1].losingTrades = stats[1].totalTrades
       /\ stats[1].winRate = IF closed > 0
                             THEN (stats[1].winningTrades * 100 * IndScale) \div closed
                             ELSE 0

\* C8: an entry signal with no position open whose margin + fee exceeds
\* the balance is skipped: balance, position and ledger stay as they were
\* and the loop goes on to the next bar.
SignalMargin(sig, price) ==
  (sig.positionSize.n * sig.leverage * price) \div (sig.positionSize.d * sig.leverage)

Unaffordable(sig, price, bal, feePercentage) ==
  SignalMargin(sig, price)
    + (SignalMargin(sig, price) * feePercentage) \div (100 * IndScale) > bal

C8_UnaffordableEntrySkipped ==
  [][(InLoop /\ currentPosition = NoPosition /\ signal'.action \in {"buy", "sell"}
        /\ Unaffordable(signal', priceData[i + 1].close, balance, config.feePercentage))
       => (/\ balance' = balance
           /\ currentPosition' = NoPosition
           /\ tradeHistory' = tradeHistory
           /\ pc' = "loop"
           /\ i' = i + 1)]_vars

C8_Witness ==
  /\ pc = "loop"
  /\ i > WarmUp
  /\ i < Len(priceData)
  /\ currentPosition = NoPosition
  /\ signal.action \in {"buy", "sell"}
  /\ Unaffordable(signal, priceData[i].close, balance, config.feePercentage)
  /\ balance > 0

\* The run of the loop over data alone, from candle idx on.
RECURSIVE Replay(_, _, _, _)
Replay(data, feePercentage, idx, st) ==
  IF idx >= Len(data) \/ st.ctl = "break" THEN st
  ELSE Replay(data, feePercentage, idx + 1,
              LoopBody(data, idx, feePercentage, st.position, st.balance, st.history,
                       SignalAt(data, idx, st.position, st.balance)))

\* C9: no lookahead.  Position, balance and ledger after the step on bar
\* k are those of a run over bars 0..k alone, so runs that agree up to
\* bar k agree in state after step k.
C9_NoLookahead ==
  pc \in {"loop", "stats"} =>
    LET seen == Min2(IF pc = "loop" THEN i ELSE i + 1, Len(priceData))
        r == Replay(SubSeq(priceData, 1, seen), config.feePercentage, WarmUp,
                    [ctl |-> "next", position |-> NoPosition,
                     balance |-> config.initialBalance, history |-> <<>>])
    IN /\ r.position = currentPosition
       /\ r.balance = balance
       /\ r.history = tradeHistory

C9_Witness ==
  /\ pc = "loop"
  /\ i > WarmUp
  /\ i < Len(priceData)
  /\ tradeHistory # <<>>

\* C10: when the price source is empty and stays empty after the import
\* attempt, run fails: no loop step, nothing persisted, no stats.
SourceEmpty == dbRows = <<>> /\ (csvRows.count = 0 \/ csvRows.rows = <<>>)

C10_EmptySourceFails ==
  SourceEmpty =>
    /\ pc \in {"fetch", "failed"}
    /\ i = WarmUp /\ tradeHistory = <<>> /\ signal = NotAsked
    /\ simulations = <<>> /\ trades = <<>>
    /\ stats = <<>> /\ result = <<>>

C10_Witness == SourceEmpty /\ pc = "failed" /\ csvRows.count > 0

\* The ledger's Trades, in order (a halt record is not a Trade).
ClosedTrades(history) == SelectSeq(history, IsTrade)

\* Sum of the profits of the first k Trades.
RECURSIVE ProfitUpTo(_, _)
ProfitUpTo(closed, k) ==
  IF k = 0 THEN 0 ELSE closed[k].profit + ProfitUpTo(closed, k - 1)

\* C11: for every ledger handed to saveTrades, a ledger ending with a halt
\* record included, the Trades are persisted and the k-th row has
\* new_balance = initialBalance + the profits of entries 1..k and
\* prev_balance = the previous row's new_balance (initialBalance first).
C11_PersistedRunningTotals ==
  (pc = "done" /\ simulations # <<>>) =>
    LET closed == ClosedTrades(tradeHistory) IN
    /\ Len(trades) >= Len(closed)
    /\ \A k \in 1..Len(closed) :
         /\ trades[k].new_balance = config.initialBalance + ProfitUpTo(closed, k)
         /\ trades[k].prev_balance = IF k = 1 THEN config.initialBalance
                                     ELSE trades[k - 1].new_balance

\* Sum of the positive profits, and of the non-positive ones, of Trades.
RECURSIVE GainOf(_)
GainOf(closed) ==
  IF closed = <<>> THEN 0
  ELSE (IF Head(closed).profit > 0 THEN Head(closed).profit ELSE 0) + GainOf(Tail(closed))

RECURSIVE LossOf(_)
LossOf(closed) ==
  IF closed = <<>> THEN 0
  ELSE (IF Head(closed).profit <= 0 THEN Head(closed).profit ELSE 0) + LossOf(Tail(closed))

\* C12: after any run profitFactor is gain / |loss| when the loss sum is
\* not zero, +Infinity when there is gain and no loss, 0 when there is
\* neither; pnl = finalBalance - initialBalance and pnlPercentage =
\* (finalBalance / initialBalance - 1) x 100.
C12_ProfitFactorAndPnl ==
  pc = "done" =>
    LET closed == ClosedTrades(tradeHistory)
        gain == GainOf(closed)
        loss == Abs(LossOf(closed))
        st == stats[1]
    IN /\ st.profitFactor = IF loss # 0 THEN (gain * IndScale) \div loss
                            ELSE IF gain > 0 THEN PosInf ELSE 0
       /\ st.finalBalance = balance
       /\ st.initialBalance = config.initialBalance
       /\ st.pnl = st.finalBalance - st.initialBalance
       /\ st.pnlPercentage
            = Div(st.finalBalance - st.initialBalance, 100 * IndScale, st.initialBalance)

C12_Witness ==
  /\ pc = "done"
  /\ GainOf(ClosedTrades(tradeHistory)) > 0
  /\ LossOf(ClosedTrades(tradeHistory)) < 0
  /\ stats[1].profitFactor > 0
  /\ stats[1].profitFactor < PosInf

\* C13: below its minimum length, the empty sequence included, every
\* indicator returns its fallback and does not throw: RSI 50 and ATR 0
\* below period+1 candles, ADX null below period+2, Stochastic {50, 50}
\* below period, SMA, EMA and the three Bollinger bands the latest close
\* below period.
C13_ShortInputFallbacks ==
  (pc = "eval" /\ readings # <<>>) =>
    LET n == Len(Evaluated)
        r == readings[1]
        latest == IF n = 0 THEN Null ELSE Evaluated[n].close * IndScale
        IsLatest(x) == x # Thrown /\ (n > 0 => x = latest)
    IN /\ n < 14 + 1 => r.rsi = 50 * IndScale
       /\ n < 14 + 1 => r.atr = 0
       /\ n < 14 + 2 => r.adx = Null
       /\ n < 14 => r.stoch = [k |-> 50 * IndScale, d |-> 50 * IndScale]
       /\ n < 20 => /\ IsLatest(r.sma)
                    /\ IsLatest(r.ema)
                    /\ IsLatest(r.bands.upper)
                    /\ IsLatest(r.bands.middle)
                    /\ IsLatest(r.bands.lower)

C15_FlatRsiIsNeutral ==
  (pc = "eval" /\ readings # <<>> /\ IsFlat(priceData) /\ Len(Evaluated) >= 14 + 1)
    => readings[1].rsi = 50 * IndScale

\* C15, amended: on flat candles, from period+1 candles on, RSI is 100
\* (the average loss is zero); below period+1 candles it is 50.
C15_FlatRsiIsHundred ==
  (pc = "eval" /\ readings # <<>> /\ IsFlat(priceData))
    => readings[1].rsi = IF Len(Evaluated) >= 14 + 1 THEN 100 * IndScale
                         ELSE 50 * IndScale

C15_Witness ==
  /\ pc = "eval"
  /\ readings # <<>>
  /\ IsFlat(priceData)
  /\ Len(Evaluated) > 14 + 1
  /\ readings[1].rsi = 100 * IndScale

\* Closes 100, 101, 102, ...
IsRising(candles) == \A j \in 1..Len(candles) : candles[j].close = 100 + j - 1

\* A long Trade closed by a take-profit exit within three bars of its
\* entry, with a positive profit.
QuickLongProfit(entry) ==
  /\ IsTrade(entry)
  /\ entry.direction = "long"
  /\ entry.exitReason \in {"Take profit hit", "Take profit triggered"}
  /\ entry.exitTime - entry.entryTime <= 3
  /\ entry.profit > 0

\* C16: a run with the default configuration over the strictly rising
\* 30-bar sequence (closes 100, 101, ...) opens a long position and closes
\* it within a few bars by a take-profit exit, with a positive profit.
C16_RisingRunTakesProfit ==
  (pc = "done" /\ config = DefaultConfig /\ IsRising(priceData) /\ Len(priceData) = 30)
    => \E k \in 1..Len(tradeHistory) : QuickLongProfit(tradeHistory[k])

\* The ledger holds a halt record.
Halted == \E k \in 1..Len(tradeHistory) : IsHalt(tradeHistory[k])

\* C17 as stated: from a positive initial balance, the balance is >= 0 in
\* every state reached before a halt; neither opening nor closing a
\* position makes it negative.
C17_BalanceNeverNegative ==
  (config.initialBalance > 0 /\ ~Halted) => balance >= 0

\* C17, amended: opening a position never makes the balance negative and
\* the balance is >= 0 as long as a position is open; the balance only
\* goes negative on the close of a position at a loss.
C17_OnlyALosingCloseGoesNegative ==
  /\ [](config.initialBalance > 0 /\ currentPosition # NoPosition => balance >= 0)
  /\ [][(balance >= 0 /\ balance' < 0)
          => (/\ currentPosition # NoPosition
              /\ currentPosition' = NoPosition
              /\ tradeHistory' = Append(tradeHistory, LastEntry(tradeHistory'))
              /\ IsTrade(LastEntry(tradeHistory'))
              /\ LastEntry(tradeHistory').profit < 0
              /\ balance' = balance + currentPosition.margin
                              + LastEntry(tradeHistory').profit)]_vars

C17_Witness ==
  /\ pc = "loop"
  /\ ~Halted
  /\ balance < 0
  /\ tradeHistory # <<>>
  /\ IsTrade(LastEntry(tradeHistory))
  /\ LastEntry(tradeHistory).entryBalance > 0
  /\ LastEntry(tradeHistory).entryBalance - LastEntry(tradeHistory).margin >= 0

\* C18: the loop ends in one of two ways only: every bar was processed,
\* or the strategy returned halt and the halt record is in the ledger.
C18_LoopEndsByBarsOrHalt ==
  pc \in {"stats", "done"} =>
    \/ i >= Len(priceData)
    \/ tradeHistory # <<>> /\ IsHalt(LastEntry(tradeHistory))

\* What C19 says analyze returns for an open position: the action and
\* reason, by the precedence take profit, stop loss, trend change,
\* trailing stop, hold.
ExpectedForPosition(candles, position) ==
  LET n == Len(candles)
      close == candles[n].close
      entry == position.entryPrice
      delta == IF position.direction = "long" THEN close - entry ELSE entry - close
      ema5 == calculateEMA(candles, 5)
      prevEma5 == calculateEMA(SubSeq(candles, 1, n - 1), 5)
      histogram == calculateMACD(candles, 12, 26, 9).histogram
      against == IF position.direction = "long"
                 THEN close < candles[n].open \/ ema5 < prevEma5 \/ histogram < 0
                 ELSE close > candles[n].open \/ ema5 > prevEma5 \/ histogram > 0
      trailBeyondEntry == IF position.direction = "long"
                          THEN close * 9995 > entry * 10000
                          ELSE close * 10005 < entry * 10000
  IN IF delta * 1000 >= entry THEN <<"exit", "Take profit hit">>
     ELSE IF delta * 10000 <= (-15) * entry THEN <<"exit", "Stop loss hit">>
     ELSE IF against THEN <<"exit", "Trend change">>
     ELSE IF delta * 10000 > 5 * entry /\ trailBeyondEntry
          THEN <<"exit", "Trailing stop hit">>
     ELSE <<"hold", "Maintaining position">>

\* C19: with a position open, a positive balance and at least 15 candles,
\* analyze returns exit or hold, never buy, sell or wait, by the
\* precedence: 'Take profit hit' at P&L% >= 0.1, 'Stop loss hit' at
\* P&L% <= -0.15, 'Trend change' on a signal against the position,
\* 'Trailing stop hit' at P&L% > 0.05 with the trail price beyond the
\* entry price, else hold.
C19_OpenPositionDecision ==
  [][(InLoop /\ currentPosition # NoPosition /\ balance > 0
        /\ ~CriticallyLow(balance, currentPosition) /\ i + 1 >= 15)
       => (/\ signal'.action \in {"exit", "hold"}
           /\ <<signal'.action, signal'.reason>>
                = ExpectedForPosition(SubSeq(priceData, 1, i + 1), currentPosition))]_vars

C19_Witness ==
  /\ pc = "loop"
  /\ i > WarmUp
  /\ signal.action = "exit"
  /\ signal.reason = "Trailing stop hit"
  /\ tradeHistory # <<>>
  /\ LastEntry(tradeHistory).exitReason = "Trailing stop hit"
  /\ LastEntry(tradeHistory).exitTime = i - 1

\* The size C20 states: (0.3% of balance) / (0.15% of close), that is
\* (30 x balance) / (15 x close), capped so that size x close is at most
\* 20% of the balance.
ExpectedSize(bal, close) ==
  LET uncapped == Qty(bal * 30, close * 15)
      value == QtyTimes(uncapped, close)
  IN IF value.n * 5 > bal * value.d THEN Qty(bal, 5 * close) ELSE uncapped

\* C20: every entry signal carries leverage 3 and the size (0.3% of
\* balance) / (0.15% of close) capped at 20% of the balance; every
\* position the simulator opens has margin <= 20% of the balance at entry
\* and size = 3 x the signal's positionSize.
C20_EntrySizing ==
  [][(InLoop /\ signal'.action \in {"buy", "sell"})
       => LET close == priceData[i + 1].close
              sz == signal'.positionSize
          IN /\ signal'.leverage = 3
             /\ sz = ExpectedSize(balance, close)
             /\ QtyTimes(sz, close).n * 5 <= balance * QtyTimes(sz, close).d
             /\ (currentPosition = NoPosition /\ currentPosition' # NoPosition)
                  => (/\ currentPosition'.margin * 5 <= balance
                      /\ currentPosition'.size = Qty(3 * sz.n, sz.d)
                      /\ currentPosition'.leverage = 3)]_vars

\* volatilityPercent of line 61 for the evaluated candles, from the ATR
\* reading.
VolatilityOf(candles) ==
  LET close == candles[Len(candles)].close
  IN IF close > 0 THEN (readings[1].atr * 100) \div close ELSE 0

\* The entry conditions of lines 207-216 and 243-252 that do not look at
\* the ADX, for the evaluated candles.
SetupOf(candles) ==
  LET n == Len(candles)
      before == SubSeq(candles, 1, n - 1)
      rsi == readings[1].rsi
      prevRsi == calculateRSI(before, 14)
      stoch == readings[1].stoch
      histogram == calculateMACD(candles, 12, 26, 9).histogram
      up == candles[n].close > candles[n].open \/ candles[n].close > candles[n - 1].close
      down == candles[n].close < candles[n].open \/ candles[n].close < candles[n - 1].close
      microUptrend == calculateEMA(candles, 5) > calculateEMA(before, 5)
      microDowntrend == calculateEMA(candles, 5) < calculateEMA(before, 5)
  IN [long |-> up /\ (microUptrend \/ rsi > 40 * IndScale \/ histogram > 0
                      \/ Gt(stoch.k, stoch.d) \/ (rsi < 40 * IndScale /\ rsi > prevRsi)),
      short |-> down /\ (microDowntrend \/ rsi < 60 * IndScale \/ histogram < 0
                         \/ Lt(stoch.k, stoch.d) \/ (rsi > 60 * IndScale /\ rsi < prevRsi))]

C21_WeakTrendSeen ==
  /\ pc = "eval" /\ i >= 1 /\ Len(Evaluated) >= 16
  /\ IsNum(readings[1].adx) /\ readings[1].adx < 15 * IndScale
  /\ VolatilityOf(Evaluated) >= 20
  /\ signal.reason = "Weak trend with insufficient volatility"

\* The patterns whose predicate holds on the last three candles, each with
\* the strength detectPattern gives it.
Matching(candles) ==
  LET c1 == candles[Len(candles) - 2]
      c2 == candles[Len(candles) - 1]
      c3 == candles[Len(candles)]
  IN {m \in {[pattern |-> "morning_star", strength |-> 9, holds |-> isMorningStar(c1, c2, c3)],
             [pattern |-> "evening_star", strength |-> 9, holds |-> isEveningStar(c1, c2, c3)],
             [pattern |-> "three_white_soldiers", strength |-> 8,
              holds |-> isThreeWhiteSoldiers(c1, c2, c3)],
             [pattern |-> "three_black_crows", strength |-> 8,
              holds |-> isThreeBlackCrows(c1, c2, c3)],
             [pattern |-> "bullish_engulfing", strength |-> 7,
              holds |-> isBullishEngulfing(c3, c2)],
             [pattern |-> "bearish_engulfing", strength |-> 7,
              holds |-> isBearishEngulfing(c3, c2)],
             [pattern |-> "bullish_harami", strength |-> 5, holds |-> isBullishHarami(c3, c2)],
             [pattern |-> "bearish_harami", strength |-> 5, holds |-> isBearishHarami(c3, c2)],
             [pattern |-> "doji", strength |-> 0, holds |-> isDoji(c3)],
             [pattern |-> "hammer", strength |-> 6, holds |-> isHammer(c3)],
             [pattern |-> "shooting_star", strength |-> 6, holds |-> isShootingStar(c3)]} :
        m.holds}

\* C22: on a window of at least three candles detectPattern returns a
\* matching pattern of the greatest absolute strength among those whose
\* predicate holds, and 'basic_candle' only when none holds.
C22_ReturnsStrongestMatch ==
  (pc = "detected" /\ Len(priceData) >= 3)
    => LET matching == Matching(priceData)
           returned == readings[1]
       IN /\ (returned.pattern = "basic_candle") <=> (matching = {})
          /\ matching # {}
               => /\ \E m \in matching : m.pattern = returned.pattern
                  /\ \A m \in matching : m.strength * IndScale <= Abs(returned.strength)

\* What the chain does return: the first pattern, in the order of the
\* code, whose predicate holds.
PatternOrder ==
  <<"morning_star", "evening_star", "three_white_soldiers", "three_black_crows",
    "bullish_engulfing", "bearish_engulfing", "bullish_harami", "bearish_harami",
    "doji", "hammer", "shooting_star">>

C22_ReturnsFirstMatchInOrder ==
  (pc = "detected" /\ Len(priceData) >= 3)
    => LET names == {m.pattern : m \in Matching(priceData)}
           returned == readings[1]
       IN /\ (returned.pattern = "basic_candle") <=> (names = {})
          /\ names # {}
               => \E k \in 1..Len(PatternOrder) :
                     /\ PatternOrder[k] = returned.pattern
                     /\ PatternOrder[k] \in names
                     /\ \A j \in 1..(k - 1) : PatternOrder[j] \notin names

\* C23: at or above its minimum length every one of RSI, ATR, ADX and
\* Stochastic returns a number, flat candles included: never NaN, never
\* undefined.
C23_IndicatorsReturnNumbers ==
  (pc = "eval" /\ i >= 1)
    => LET n == Len(Evaluated)
           r == readings[1]
       IN /\ n >= 14 + 1 => IsNum(r.rsi)
          /\ n >= 14 + 1 => IsNum(r.atr)
          /\ n >= 14 + 2 => IsNum(r.adx)
          /\ n >= 14 => IsNum(r.stoch.k) /\ IsNum(r.stoch.d)

\* The part that holds: RSI and ATR are numbers on every sequence; ADX is
\* NaN on flat candles (a zero true range) and Stochastic is NaN on a flat
\* window (a zero high-low span) and undefined below period+2 candles,
\* where smoothing leaves no value; elsewhere both are numbers.
C23_NumbersExceptZeroDivisors ==
  (pc = "eval" /\ i >= 1)
    => LET n == Len(Evaluated)
           r == readings[1]
           tail == SubSeq(Evaluated, n - 13, n)
       IN /\ IsNum(r.rsi) /\ IsNum(r.atr)
          /\ (n >= 14 + 2 /\ ~IsFlat(Evaluated)) => IsNum(r.adx)
          /\ (n >= 14 + 2 /\ ~IsFlat(tail)) => IsNum(r.stoch.k)
          /\ (n >= 14 /\ n < 14 + 2) => r.stoch.k = NaN /\ r.stoch.d = NaN
          /\ (n >= 14 + 2 /\ IsFlat(Evaluated)) => r.adx = NaN /\ r.stoch.k = NaN

\* C24: on a bar where the balance is below 2 and no position is open, the
\* simulator opens no position.
C24_NoEntryBelowTwo ==
  [][(InLoop /\ balance < 2 * Cents /\ currentPosition = NoPosition)
       => currentPosition' = NoPosition]_vars

\* The exit reasons of the simulator's own price monitoring.
PassiveReasons == {"Stop loss triggered", "Take profit triggered"}

\* C25: with the bundled strategy, on a bar where a position is open and
\* the close has reached the stored stopLoss or takeProfit, analyze returns
\* exit on that bar and the position is closed for the strategy's reason;
\* the price-monitoring branches never close anything, so no Trade of the
\* ledger has the reason 'Stop loss triggered' or 'Take profit triggered'.
C25_EngineExitsFirst ==
  [][/\ (/\ InLoop
         /\ currentPosition # NoPosition
         /\ ~CriticallyLow(balance, currentPosition)
         /\ PriceTrigger(currentPosition, priceData[i + 1].close) # "none")
          => /\ signal'.action = "exit"
             /\ currentPosition' = NoPosition
             /\ Len(tradeHistory') = Len(tradeHistory) + 1
             /\ LastEntry(tradeHistory').exitReason
                   = (IF PriceTrigger(currentPosition, priceData[i + 1].close)
                          = "Stop loss triggered"
                      THEN "Stop loss hit" ELSE "Take profit hit")
     /\ \A k \in 1..Len(tradeHistory') :
           IsTrade(tradeHistory'[k]) => tradeHistory'[k].exitReason \notin PassiveReasons]_vars

\* A position whose stored stop loss the close reached has just been
\* closed, by the strategy.
C25_Witness ==
  /\ tradeHistory # <<>>
  /\ IsTrade(LastEntry(tradeHistory))
  /\ LET t == LastEntry(tradeHistory)
     IN /\ PriceTrigger(t, t.exitPrice) = "Stop loss triggered"
        /\ t.exitReason = "Stop loss hit"
        /\ t.exitTime = i - 1
  /\ pc = "loop"

\* Sum of the entry fees of the Trades: margin * feePercentage / 100 each.
RECURSIVE EntryFees(_, _)
EntryFees(closed, feePercentage) ==
  IF closed = <<>> THEN 0
  ELSE FeeOf(Head(closed).margin, feePercentage) + EntryFees(Tail(closed), feePercentage)

\* C26: at every step balance = initialBalance + the profits of the closed
\* Trades - the entry fees of every position opened so far - the margin of
\* the open position, if any; and a position still open when the run ends
\* stays open, has no Trade in the ledger, and its margin and entry fee
\* stay out of finalBalance.
C26_BalanceIdentity ==
  LET closed == ClosedTrades(tradeHistory)
      openMargin == IF currentPosition = NoPosition THEN 0 ELSE currentPosition.margin
      openFee == IF currentPosition = NoPosition THEN 0
                 ELSE FeeOf(currentPosition.margin, config.feePercentage)
      identity == config.initialBalance + ProfitUpTo(closed, Len(closed))
                    - (EntryFees(closed, config.feePercentage) + openFee) - openMargin
  IN /\ balance = identity
     /\ (pc = "done" /\ currentPosition # NoPosition)
          => /\ stats[1].finalBalance = identity
             /\ stats[1].totalTrades = Len(tradeHistory)
             /\ \A k \in 1..Len(closed) : closed[k].entryTime # currentPosition.entryTime

\* A finished run of the bars with one Trade closed and a later position
\* left open, with a fee paid.
C26_Witness ==
  /\ pc = "done" /\ i = Len(priceData)
  /\ currentPosition # NoPosition
  /\ FeeOf(currentPosition.margin, config.feePercentage) > 0
  /\ ClosedTrades(tradeHistory) # <<>>

\* C27: for every candle sequence and every choice of periods calculateMACD
\* returns a signal line equal to the MACD line and a histogram of 0.
C27_MacdHistogramIsZero ==
  (pc = "eval" /\ i >= 1)
    => \A p \in MacdPeriods :
          LET macd == readings[1].macd[p]
          IN /\ macd.macdLine # Thrown
             /\ macd.signalLine = macd.macdLine
             /\ macd.histogram = 0

\* The same on the sequences that have a candle: there the signal line is
\* the MACD line, the histogram is 0, and with the default periods the
\* MACD line itself is not always 0.
C27_ZeroOnEveryCandle ==
  (pc = "eval" /\ i >= 1 /\ Len(Evaluated) >= 1)
    => \A p \in MacdPeriods :
          LET macd == readings[1].macd[p]
          IN /\ macd.macdLine # Thrown
             /\ macd.signalLine = macd.macdLine
             /\ macd.histogram = 0

C27_MacdLineMoves ==
  /\ pc = "eval" /\ i >= 1 /\ Len(Evaluated) >= 15
  /\ readings[1].macd[<<12, 26, 9>>].macdLine # 0
  /\ readings[1].macd[<<12, 26, 9>>].histogram = 0

\* C28: a bar makes at most one position transition.  A position opened on
\* bar i leaves the ledger alone and is closed on a later bar; a bar that
\* closes a position opens none; so the Trades of the ledger are in time
\* order, each exit strictly before the next entry, and before the entry
\* of the position now open.
C28_OneTransitionPerBar ==
  [][InLoop
       => LET closed == ClosedTrades(tradeHistory')
          IN /\ (currentPosition = NoPosition /\ currentPosition' # NoPosition)
                  => currentPosition'.entryTime = i /\ tradeHistory' = tradeHistory
             /\ currentPosition # NoPosition
                  => currentPosition' \in {currentPosition, NoPosition}
             /\ (currentPosition # NoPosition /\ currentPosition' = NoPosition)
                  => /\ Len(tradeHistory') = Len(tradeHistory) + 1
                     /\ LastEntry(tradeHistory').exitTime = i
                     /\ LastEntry(tradeHistory').entryTime < i
             /\ Len(closed) <= Len(ClosedTrades(tradeHistory)) + 1
             /\ \A k \in 1..Len(closed) : closed[k].entryTime < closed[k].exitTime
             /\ \A k \in 1..(Len(closed) - 1) : closed[k].exitTime < closed[k + 1].entryTime
             /\ currentPosition' # NoPosition
                  => \A k \in 1..Len(closed) : closed[k].exitTime < currentPosition'.entryTime]_vars

\* Two Trades, the second entered on the bar after the first was closed.
C28_Witness ==
  LET closed == ClosedTrades(tradeHistory)
  IN /\ Len(closed) >= 2
     /\ closed[1].exitTime + 1 = closed[2].entryTime
     /\ closed[1].entryTime + 1 = closed[1].exitTime

EntrySent(c) == live.at[c] # "entryOrder" /\ live'.at[c] = "entryOrder"

\* C30: in the live trader, however the trading cycles interleave, an entry
\* order is never sent while a position is tracked or while another entry
\* order is in flight, and at most one entry order is sent between two
\* exits.
C30_OneEntryAtATime ==
  [][pc = "live"
       => /\ \A c \in Cycles :
               EntrySent(c)
                 => /\ live.position = "none"
                    /\ \A d \in Cycles : live.at[d] # "entryOrder"
          /\ live'.entriesSinceExit <= 1]_vars

\* What holds of each cycle alone: when it asked analyze, nothing was
\* tracked, and it sends at most one entry order.
C30_CheckedWhenAsked ==
  [][pc = "live"
       => \A c \in Cycles :
             (live.at[c] = "getAccountInfo" /\ live'.at[c] = "getFuturesAccountInfo")
               => live.position = "none"]_vars

====
